---- MODULE Spec2Model ----
(***************************************************************************)
(* A model of the two code generators of FigmaToCode that the repository   *)
(* keeps in                                                                *)
(*   packages/backend/src/html/htmlDefaultBuilder.ts  (class               *)
(*       HtmlDefaultBuilder, the second, current definition, lines         *)
(*       417-819, and isIconNode)                                          *)
(*   packages/backend/src/swiftui/swiftuiMain.ts                           *)
(*                                                                         *)
(* Text is modelled as a sequence of tokens (records).  A style            *)
(* declaration "prop: value" is the record [prop, val]; the string "\n"    *)
(* is the token NL wherever the source writes it; the empty string is the  *)
(* empty sequence (for a declaration: EmptyStyle).  Indentation (spaces)   *)
(* is not part of a token.                                                 *)
(***************************************************************************)
EXTENDS Integers, Sequences, FiniteSets, TLC

VARIABLES
  \* ---- HtmlDefaultBuilder (one builder object and its caller) ----
  node,              \* this.node
  isJSX,             \* this.isJSX
  styles,            \* this.styles
  backgroundValues,  \* applyFillsToStyle's local backgroundValues
  stylesAtBuild,     \* this.styles as build() found it (after addStyles)
  built,             \* what build() serialised
  thisName,          \* this.name
  pc,                \* where the caller of the builder stands
  optimizeLayout,    \* the optimizeLayout argument the caller passes
  \* ---- swiftuiMain ----
  sceneNode,         \* the argument of the last swiftuiMain call
  settings,          \* the settings argument of the last call
  localSettings,     \* the module-level let localSettings
  result,            \* what the last call returned (or that it threw)
  ref                \* a remembered earlier call: its arguments and result

htmlVars == <<node, isJSX, styles, backgroundValues, stylesAtBuild, built,
              thisName, pc, optimizeLayout>>
swiftVars == <<sceneNode, settings, localSettings, result, ref>>
vars == <<node, isJSX, styles, backgroundValues, stylesAtBuild, built,
          thisName, pc, optimizeLayout, sceneNode, settings, localSettings, result, ref>>

(***************************************************************************)
(* Bounds of the model.                                                    *)
(***************************************************************************)
MaxWeight == 2
MaxPaints == 2
NumColors == 2
MaxAdditional == 1

(***************************************************************************)
(* Generic helpers.                                                        *)
(***************************************************************************)
Range(s) == {s[i] : i \in 1..Len(s)}

SeqsUpTo(S, n) == UNION {[1..k -> S] : k \in 0..n}

Tok(name) == [t |-> name]

\* Array.prototype.join: the texts of parts, with the separator between them.
RECURSIVE Join(_, _)
Join(parts, separator) ==
  IF parts = <<>> THEN <<>>
  ELSE IF Len(parts) = 1 THEN parts[1]
  ELSE parts[1] \o <<Tok(separator)>> \o Join(Tail(parts), separator)

\* The number of elements of s that satisfy Test.
Count(s, Test(_)) == Cardinality({i \in 1..Len(s) : Test(s[i])})

\* The index of the first element satisfying Test, 0 when there is none
\* (Array.prototype.findIndex, with 0 for its -1).
FindIndex(s, Test(_)) ==
  IF \E i \in 1..Len(s) : Test(s[i])
  THEN CHOOSE i \in 1..Len(s) : Test(s[i]) /\ \A j \in 1..(i - 1) : ~Test(s[j])
  ELSE 0

(***************************************************************************)
(* HtmlDefaultBuilder: the values its collaborators hand it.               *)
(***************************************************************************)
EmptyStyle == [prop |-> "", val |-> <<>>]

\* formatWithJSX(property, isJsx, value): one declaration string, whose
\* part before the first ":" is the property.
formatWithJSX(property, isJsx, value) == [prop |-> property, val |-> value]

PaintTypes == {"SOLID", "GRADIENT_LINEAR", "GRADIENT_RADIAL",
               "GRADIENT_ANGULAR", "IMAGE"}
GradientTypes == {"GRADIENT_LINEAR", "GRADIENT_RADIAL", "GRADIENT_ANGULAR"}
Paints == [type : PaintTypes, color : 1..NumColors]

\* A paint list, or figma.mixed.
PaintList(ps) == [mixed |-> FALSE, paints |-> ps]
Mixed == [mixed |-> TRUE, paints |-> <<>>]
NoPaints == PaintList(<<>>)

\* htmlColorFromFills: the colour expression of the first resolvable paint,
\* the empty string when there is none.
htmlColorFromFills(paintArray) ==
  LET ok(p) == p.type = "SOLID" \/ p.type \in GradientTypes
      i == FindIndex(paintArray.paints, ok)
  IN IF paintArray.mixed \/ i = 0 THEN <<>>
     ELSE <<[t |-> "color", paint |-> paintArray.paints[i]]>>

\* htmlGradientFromFills: the gradient expression of a gradient paint.
htmlGradientFromFills(paintArray) ==
  LET ok(p) == p.type \in GradientTypes
      i == FindIndex(paintArray.paints, ok)
  IN IF paintArray.mixed \/ i = 0 THEN <<>>
     ELSE <<[t |-> "gradient", paint |-> paintArray.paints[i]]>>

\* commonStroke: null without strokes, {all} when the four edge weights are
\* equal, the four weights otherwise.
commonStroke(n) ==
  IF n.strokes.mixed \/ n.strokes.paints = <<>>
  THEN [isNull |-> TRUE, hasAll |-> FALSE, all |-> 0,
        left |-> 0, top |-> 0, right |-> 0, bottom |-> 0]
  ELSE IF /\ n.strokeTopWeight = n.strokeBottomWeight
          /\ n.strokeTopWeight = n.strokeLeftWeight
          /\ n.strokeTopWeight = n.strokeRightWeight
  THEN [isNull |-> FALSE, hasAll |-> TRUE, all |-> n.strokeTopWeight,
        left |-> 0, top |-> 0, right |-> 0, bottom |-> 0]
  ELSE [isNull |-> FALSE, hasAll |-> FALSE, all |-> 0,
        left |-> n.strokeLeftWeight, top |-> n.strokeTopWeight,
        right |-> n.strokeRightWeight, bottom |-> n.strokeBottomWeight]

\* htmlBorderRadius: the corner radius declarations (none for radius 0).
htmlBorderRadius(n, isJsx) ==
  IF n.cornerRadius > 0
  THEN <<formatWithJSX("border-radius", isJsx,
                       <<[t |-> "px", n |-> n.cornerRadius]>>)>>
  ELSE <<>>

\* htmlSizePartial: a width and a height declaration, each possibly "".
htmlSizePartial(n, isJsx, optimize) ==
  [width  |-> IF n.sizeWidth
              THEN formatWithJSX("width", isJsx, <<[t |-> "px", n |-> n.width]>>)
              ELSE EmptyStyle,
   height |-> IF n.sizeHeight
              THEN formatWithJSX("height", isJsx, <<[t |-> "px", n |-> n.height]>>)
              ELSE EmptyStyle]

\* htmlPadding: the padding declarations of a layout snapshot.
htmlPadding(layout, isJsx) ==
  IF layout.padding > 0
  THEN <<formatWithJSX("padding", isJsx, <<[t |-> "px", n |-> layout.padding]>>)>>
  ELSE <<>>

\* htmlVisibility, htmlRotation, htmlOpacity, htmlBlendMode.
htmlVisibility(n, isJsx) ==
  IF n.visible THEN EmptyStyle
  ELSE formatWithJSX("visibility", isJsx, <<Tok("hidden")>>)

htmlRotation(n, isJsx) ==
  IF n.rotation = 0 THEN <<>>
  ELSE <<formatWithJSX("transform", isJsx, <<[t |-> "rotate", n |-> n.rotation]>>),
         formatWithJSX("transform-origin", isJsx, <<Tok("0 0")>>)>>

htmlOpacity(n, isJsx) ==
  IF n.opacity = 100 THEN EmptyStyle
  ELSE formatWithJSX("opacity", isJsx, <<[t |-> "num", n |-> n.opacity]>>)

htmlBlendMode(n, isJsx) ==
  IF n.blendMode = "NORMAL" THEN EmptyStyle
  ELSE formatWithJSX("mix-blend-mode", isJsx, <<Tok(n.blendMode)>>)

\* htmlShadow: the box-shadow value of the visible shadow effects, "" when
\* there is none.
htmlShadow(n) ==
  LET isShadow(e) == e.type \in {"DROP_SHADOW", "INNER_SHADOW"} /\ e.visible
  IN IF Count(n.effects, isShadow) > 0
     THEN <<[t |-> "shadow", n |-> Count(n.effects, isShadow)]>>
     ELSE <<>>

\* "layoutMode" in node: frames and component instances carry the field.
HasLayoutMode(n) == n.type \in {"FRAME", "INSTANCE"}

\* commonIsAbsolutePosition: the node does not take part in an active
\* auto-layout of its parent (under optimize mode the parent's inferred
\* snapshot decides when there is one).
commonIsAbsolutePosition(n, optimize) ==
  IF optimize /\ n.parentInferred # "null"
  THEN n.parentInferred = "NONE"
  ELSE \/ n.layoutPositioning = "ABSOLUTE"
       \/ n.parentLayoutMode \in {"ABSENT", "NONE"}

\* getCommonPositionValue: the offset from the nearest positioning ancestor.
getCommonPositionValue(n) ==
  [x |-> <<[t |-> "px", n |-> n.x]>>, y |-> <<[t |-> "px", n |-> n.y]>>]

\* figma.getStyleById(id)?.name: the empty string when the lookup fails.
StyleIds == {"", "S:missing", "S:primary", "S:accent"}
getStyleByIdName(id) ==
  CASE id = "S:primary" -> "Primary"
    [] id = "S:accent"  -> "Accent"
    [] OTHER            -> ""

(***************************************************************************)
(* HtmlDefaultBuilder: its methods, as functions of this.styles.           *)
(***************************************************************************)
\* addStyles: push the new styles that are not the empty string.
addStyles(st, newStyles) ==
  st \o SelectSeq(newStyles, LAMBDA s : s # EmptyStyle)

size(st, n, isJsx, optimize) ==
  LET sz == htmlSizePartial(n, isJsx, optimize)
  IN IF n.type = "TEXT"
     THEN CASE n.textAutoResize = "WIDTH_AND_HEIGHT" -> st
            [] n.textAutoResize = "HEIGHT" -> addStyles(st, <<sz.width>>)
            [] OTHER -> addStyles(st, <<sz.width, sz.height>>)
     ELSE addStyles(st, <<sz.width, sz.height>>)

\* (optimizeLayout ? node.inferredAutoLayout : null) ?? node
LayoutSource(n, optimize) ==
  IF optimize /\ ~n.inferredAutoLayout.isNull
  THEN [layoutMode |-> n.inferredAutoLayout.layoutMode,
        padding |-> n.inferredAutoLayout.padding]
  ELSE [layoutMode |-> n.layoutMode, padding |-> n.padding]

autoLayoutPadding(st, n, isJsx, optimize) ==
  IF HasLayoutMode(n)      \* "paddingLeft" in node
  THEN addStyles(st, htmlPadding(LayoutSource(n, optimize), isJsx))
  ELSE st

position_noOptimize(st, n, isJsx, optimize) ==
  IF commonIsAbsolutePosition(n, optimize)
  THEN addStyles(st, <<formatWithJSX("left", isJsx, getCommonPositionValue(n).x),
                       formatWithJSX("top", isJsx, getCommonPositionValue(n).y),
                       formatWithJSX("position", isJsx, <<Tok("absolute")>>)>>)
  ELSE IF \/ n.type = "GROUP"
          \/ (HasLayoutMode(n) /\ n.layoutMode = "NONE")
       THEN addStyles(st, <<formatWithJSX("position", isJsx, <<Tok("relative")>>)>>)
       ELSE st

position(st, n, isJsx, optimize) ==
  IF commonIsAbsolutePosition(n, optimize)
  THEN addStyles(st, <<formatWithJSX("left", isJsx, getCommonPositionValue(n).x),
                       formatWithJSX("top", isJsx, getCommonPositionValue(n).y),
                       formatWithJSX("position", isJsx, <<Tok("absolute")>>)>>)
  ELSE IF \/ n.type = "GROUP"
          \/ (HasLayoutMode(n) /\ LayoutSource(n, optimize).layoutMode = "NONE")
       THEN addStyles(st, <<formatWithJSX("position", isJsx, <<Tok("relative")>>)>>)
       ELSE st

blend(st, n, isJsx) ==
  addStyles(st, <<htmlVisibility(n, isJsx)>> \o htmlRotation(n, isJsx)
                \o <<htmlOpacity(n, isJsx), htmlBlendMode(n, isJsx)>>)

\* border's consolidateBorders: weight, colour and style, the empty ones
\* dropped.
consolidateBorders(n, weight) ==
  <<[t |-> "px", n |-> weight]>> \o htmlColorFromFills(n.strokes)
    \o <<Tok(IF n.dashPattern > 0 THEN "dotted" ELSE "solid")>>

\* The branch of border for a uniform weight ("all" in commonBorder).
borderAll(st, n, isJsx, commonBorder) ==
  IF commonBorder.all = 0 THEN st
  ELSE addStyles(st, <<formatWithJSX("border", isJsx,
                                      consolidateBorders(n, commonBorder.all))>>)

borderEdges_topFirst(st, n, isJsx, commonBorder) ==
  LET edge(s, name, w) ==
        IF w # 0
        THEN addStyles(s, <<formatWithJSX(name, isJsx, consolidateBorders(n, w))>>)
        ELSE s
      s1 == edge(st, "border-top", commonBorder.top)
      s2 == edge(s1, "border-left", commonBorder.left)
      s3 == edge(s2, "border-right", commonBorder.right)
  IN edge(s3, "border-bottom", commonBorder.bottom)

\* The branch of border for differing weights: one declaration per edge.
borderEdges(st, n, isJsx, commonBorder) ==
  LET edge(s, name, w) ==
        IF w # 0
        THEN addStyles(s, <<formatWithJSX(name, isJsx, consolidateBorders(n, w))>>)
        ELSE s
      s1 == edge(st, "border-left", commonBorder.left)
      s2 == edge(s1, "border-top", commonBorder.top)
      s3 == edge(s2, "border-right", commonBorder.right)
  IN edge(s3, "border-bottom", commonBorder.bottom)

border(st, n, isJsx) ==
  LET st1 == addStyles(st, htmlBorderRadius(n, isJsx))
      commonBorder == commonStroke(n)
  IN IF commonBorder.isNull THEN st1
     ELSE IF commonBorder.hasAll
          THEN borderAll(st1, n, isJsx, commonBorder)
          ELSE borderEdges(st1, n, isJsx, commonBorder)

buildBackgroundValues_reversed(paintArray) ==
  LET seg(paint) ==
        IF paint.type = "SOLID"
        THEN <<[t |-> "linear-gradient",
                from |-> htmlColorFromFills(PaintList(<<paint>>)),
                to |-> htmlColorFromFills(PaintList(<<paint>>))]>>
        ELSE IF paint.type \in GradientTypes
             THEN htmlGradientFromFills(PaintList(<<paint>>))
             ELSE <<>>
      ps == paintArray.paints
      stylesOf == [i \in 1..Len(ps) |-> seg(ps[Len(ps) + 1 - i])]
  IN IF paintArray.mixed THEN <<>>
     ELSE IF Len(ps) = 1 /\ ps[1].type = "SOLID"
          THEN <<htmlColorFromFills(paintArray)>>
          ELSE SelectSeq(stylesOf, LAMBDA v : v # <<>>)

\* buildBackgroundValues: the segments that the source joins with ", ";
\* the empty sequence is the empty string.
buildBackgroundValues(paintArray) ==
  LET seg(paint) ==
        IF paint.type = "SOLID"
        THEN <<[t |-> "linear-gradient",
                from |-> htmlColorFromFills(PaintList(<<paint>>)),
                to |-> htmlColorFromFills(PaintList(<<paint>>))]>>
        ELSE IF paint.type \in GradientTypes
             THEN htmlGradientFromFills(PaintList(<<paint>>))
             ELSE <<>>
      ps == paintArray.paints
      stylesOf == [i \in 1..Len(ps) |-> seg(ps[i])]
  IN IF paintArray.mixed THEN <<>>
     ELSE IF Len(ps) = 1 /\ ps[1].type = "SOLID"
          THEN <<htmlColorFromFills(paintArray)>>
          ELSE SelectSeq(stylesOf, LAMBDA v : v # <<>>)

applyFillsToStyle(st, paintArray, property, isJsx) ==
  IF property = "text"
  THEN addStyles(st, <<formatWithJSX("text", isJsx, htmlColorFromFills(paintArray))>>)
  ELSE IF buildBackgroundValues(paintArray) # <<>>
       THEN addStyles(st, <<formatWithJSX("background", isJsx,
                              Join(buildBackgroundValues(paintArray), ", "))>>)
       ELSE st

shadow(st, n, isJsx) ==
  IF htmlShadow(n) # <<>>
  THEN addStyles(st, <<formatWithJSX("box-shadow", isJsx, htmlShadow(n))>>)
  ELSE st

blur(st, n, isJsx) ==
  LET isLayer(e) == e.type = "LAYER_BLUR" /\ e.visible
      isBack(e) == e.type = "BACKGROUND_BLUR" /\ e.visible
      i == FindIndex(n.effects, isLayer)
      j == FindIndex(n.effects, isBack)
      s1 == IF i # 0
            THEN addStyles(st, <<formatWithJSX("filter", isJsx,
                     <<[t |-> "blur", n |-> n.effects[i].radius]>>)>>)
            ELSE st
  IN IF j # 0
     THEN addStyles(s1, <<formatWithJSX("backdrop-filter", isJsx,
              <<[t |-> "blur", n |-> n.effects[j].radius]>>)>>)
     ELSE s1

commonPositionStyles(st, n, isJsx, optimize) ==
  blend(position(autoLayoutPadding(size(st, n, isJsx, optimize),
                                   n, isJsx, optimize),
                 n, isJsx, optimize),
        n, isJsx)

commonShapeStyles_shadowLast(st, n, isJsx) ==
  shadow(blur(border(applyFillsToStyle(st, n.fills,
                                       IF n.type = "TEXT" THEN "text"
                                                          ELSE "background",
                                       isJsx),
                     n, isJsx),
              n, isJsx),
         n, isJsx)

commonShapeStyles(st, n, isJsx) ==
  blur(border(shadow(applyFillsToStyle(st, n.fills,
                                       IF n.type = "TEXT" THEN "text"
                                                          ELSE "background",
                                       isJsx),
                     n, isJsx),
              n, isJsx),
       n, isJsx)

(***************************************************************************)
(* HtmlDefaultBuilder.build: the style part (the override of a declaration *)
(* by a named style, then the width/height filter and the style attribute).*)
(***************************************************************************)
addVariableStyle_alwaysPush(st, n, stylePropName, nodeStyleIdPropName) ==
  LET varName == getStyleByIdName(n[nodeStyleIdPropName])
      newStyleVal == [prop |-> stylePropName,
                      val |-> <<[t |-> "var", name |-> varName]>>]
  IN IF n[nodeStyleIdPropName] # "" /\ varName # ""
     THEN Append(st, newStyleVal)
     ELSE st

addVariableStyle(st, n, stylePropName, nodeStyleIdPropName) ==
  LET varName == getStyleByIdName(n[nodeStyleIdPropName])
      styleIndex == FindIndex(st, LAMBDA s : s.prop = stylePropName)
      newStyleVal == [prop |-> stylePropName,
                      val |-> <<[t |-> "var", name |-> varName]>>]
  IN IF n[nodeStyleIdPropName] # "" /\ varName # ""
     THEN IF styleIndex # 0
          THEN [st EXCEPT ![styleIndex] = newStyleVal]
          ELSE Append(st, newStyleVal)
     ELSE st

\* this.styles after the two addVariableStyle calls of build.
overrideStyles(st, n) ==
  LET s1 == addVariableStyle(st, n, "background", "backgroundStyleId")
  IN IF n.type # "FRAME"
     THEN addVariableStyle(s1, n, "color", "fillStyleId")
     ELSE s1

keepStyle_anySizing(n, s) ==
  IF s.prop = "width" THEN n.layoutSizingHorizontal # "FILL"
  ELSE IF s.prop = "height" THEN n.layoutSizingVertical # "FILL"
  ELSE TRUE

\* The predicate of formattedStyles.filter.
keepStyle(n, s) ==
  IF s.prop = "width" THEN n.layoutSizingHorizontal = "FIXED"
  ELSE IF s.prop = "height" THEN n.layoutSizingVertical = "FIXED"
  ELSE TRUE

(***************************************************************************)
(* build: the attributes.  A name, a font family and a property value are  *)
(* sequences of characters (a family: of words and spaces); a property key *)
(* is the sequence of its parts between "#"s, so that <<"label", "1:2">>   *)
(* is the key label#1:2.  A JavaScript object is the sequence of its       *)
(* entries [key, value] in insertion order.                                *)
(***************************************************************************)
\* String.prototype.replace(/\s/g, '')
RemoveWhitespace(str) == SelectSeq(str, LAMBDA c : c \notin {" ", "\t", "\n"})

\* String.prototype.includes
Includes(str, sub) ==
  \E i \in 0..(Len(str) - Len(sub)) : SubSeq(str, i + 1, i + Len(sub)) = sub

isIconNode(n) ==
  LET isTextIconNode == /\ n.type = "TEXT"
                        /\ ~n.fontName.mixed
                        /\ Includes(n.fontName.family, <<"Font", " ", "Awesome">>)
      isVectorIconNode == n.type = "VECTOR"
  IN isTextIconNode \/ isVectorIconNode

\* JavaScript values: a string, a boolean, the object { value: v } and
\* undefined.
Str(chars) == [t |-> "string", chars |-> chars]
Bool(b) == [t |-> "boolean", b |-> b]
Obj(v) == [t |-> "object", value |-> v]
UndefinedValue == [t |-> "undefined"]

\* x.value: undefined on a string or a boolean.
ValueOf(x) == IF x.t = "object" THEN x.value ELSE UndefinedValue

\* figma.getStyleById(id)?.name || 'unknown'
StyleNameOrUnknown(id) ==
  IF getStyleByIdName(id) # "" THEN Str(<<getStyleByIdName(id)>>)
  ELSE Str(<<"unknown">>)

\* obj[key], obj[key] = value and delete obj[key].
HasKey(obj, key) == \E i \in 1..Len(obj) : obj[i].key = key
Get(obj, key) ==
  IF HasKey(obj, key) THEN obj[FindIndex(obj, LAMBDA e : e.key = key)].value
  ELSE UndefinedValue
Put(obj, key, value) ==
  IF HasKey(obj, key)
  THEN [obj EXCEPT ![FindIndex(obj, LAMBDA e : e.key = key)].value = value]
  ELSE Append(obj, [key |-> key, value |-> value])
Delete(obj, key) == SelectSeq(obj, LAMBDA e : e.key # key)

\* {...a, ...b}
RECURSIVE Spread(_, _)
Spread(a, b) ==
  IF b = <<>> THEN a ELSE Spread(Put(a, b[1].key, b[1].value), Tail(b))

Keys(obj) == [i \in 1..Len(obj) |-> obj[i].key]

\* One attribute of formattedAttrs.
Attr(a, v) == [attr |-> a, val |-> v]

NavButton == <<"N", "a", "v", "B", "u", "t", "t", "o", "n">>
IconButton == <<"I", "c", "o", "n", "B", "u", "t", "t", "o", "n">>
SvgIcon == <<"S", "v", "g", "I", "c", "o", "n">>
Image == <<"I", "m", "a", "g", "e">>

\* The data-fig-type and data-fig-typog-var attributes, before the style
\* attribute (every attribute is put in front of the ones there are).
typeAttrs(n, styleAttrs) ==
  LET a1 == <<Attr("data-fig-type", n.type)>> \o styleAttrs
  IN IF n.type = "TEXT" /\ n.textStyleId # "" /\ n.textStyleId # "figma.mixed"
     THEN <<Attr("data-fig-typog-var", StyleNameOrUnknown(n.textStyleId))>> \o a1
     ELSE a1

OnlyChildIs(n, childType) ==
  Len(n.children) = 1 /\ n.children[1].type = childType

\* The if (this.node.type === "INSTANCE") block: the attributes it puts in
\* front and the extraProps it sets.
instanceAttrs(n, nameWithoutSpaces) ==
  IF n.type # "INSTANCE" THEN <<>>
  ELSE IF nameWithoutSpaces = NavButton
       THEN <<Attr("data-fig-cmp-type", IconButton),
              Attr("data-fig-cmp-type", nameWithoutSpaces)>>
  ELSE IF nameWithoutSpaces = IconButton
       THEN <<Attr("data-fig-cmp-type", nameWithoutSpaces)>>
  ELSE IF Len(n.children) = 1 /\ isIconNode(n.children[1])
       THEN <<Attr("data-fig-cmp-type", SvgIcon),
              Attr("data-fig-cmp-type", nameWithoutSpaces)>>
  ELSE <<Attr("data-fig-cmp-type", nameWithoutSpaces)>>

instanceExtraProps(n, nameWithoutSpaces) ==
  IF n.type # "INSTANCE" THEN <<>>
  ELSE IF nameWithoutSpaces = NavButton
       THEN LET e1 == Put(<<>>, <<"_width">>, Obj(Str(<<ToString(n.width)>>)))
            IN IF /\ OnlyChildIs(n, "FRAME")
                  /\ OnlyChildIs(n.children[1], "INSTANCE")
               THEN Put(e1, <<"_icon">>, Obj(Str(n.children[1].children[1].name)))
               ELSE e1
  ELSE IF nameWithoutSpaces = IconButton
       THEN IF OnlyChildIs(n, "INSTANCE")
            THEN Put(<<>>, <<"_icon">>, Obj(Str(n.children[1].name)))
            ELSE <<>>
  ELSE IF Len(n.children) = 1 /\ isIconNode(n.children[1])
       THEN Put(Put(<<>>, <<"_icon">>, Obj(Str(n.name))),
                <<"_fill">>, Obj(StyleNameOrUnknown(n.children[1].fillStyleId)))
  ELSE <<>>

\* The three blocks that follow it: an icon node, a vector, an image.
iconAttrs(n) ==
  (IF /\ n.type = "RECTANGLE" /\ ~n.fills.mixed /\ n.fills.paints # <<>>
      /\ n.fills.paints[1].type = "IMAGE"
   THEN <<Attr("data-fig-cmp-type", Image)>> ELSE <<>>)
  \o (IF n.type = "VECTOR" THEN <<Attr("data-fig-cmp-type", SvgIcon)>> ELSE <<>>)
  \o (IF isIconNode(n) THEN <<Attr("data-fig-cmp-type", SvgIcon)>> ELSE <<>>)

extraPropsOf(n, nameWithoutSpaces) ==
  IF isIconNode(n)
  THEN Put(instanceExtraProps(n, nameWithoutSpaces), <<"_fill">>,
           Obj(StyleNameOrUnknown(n.fillStyleId)))
  ELSE instanceExtraProps(n, nameWithoutSpaces)

\* The body of Object.keys(props).forEach, for one key.
normalizeKey(props, key) ==
  LET hasSuffix == Len(key) > 1
      newKey == IF hasSuffix THEN <<key[1]>> ELSE key
      moved == IF hasSuffix
               THEN Delete(Put(props, newKey, Get(props, key)), key)
               ELSE props
  IN Put(moved, newKey, ValueOf(Get(moved, newKey)))

\* The forEach over the keys the object had when it started.
RECURSIVE normalizeKeys(_, _)
normalizeKeys(props, keys) ==
  IF keys = <<>> THEN props
  ELSE normalizeKeys(normalizeKey(props, keys[1]), Tail(keys))

\* JSON.stringify of one value, then the two replace calls: an escaped
\* double quote becomes [quote], every other double quote two backticks (written [backtick][backtick]).
JsonValue(v) ==
  CASE v.t = "string" ->
         <<"[backtick][backtick]">> \o [i \in 1..Len(v.chars) |->
                        IF v.chars[i] = "\"" THEN "[quote]" ELSE v.chars[i]]
         \o <<"[backtick][backtick]">>
    [] v.t = "boolean" -> <<IF v.b THEN "true" ELSE "false">>

\* JSON.stringify of the object: an entry whose value is undefined is left
\* out.
propsStr(props) ==
  LET defined == SelectSeq(props, LAMBDA e : e.value # UndefinedValue)
  IN [i \in 1..Len(defined) |->
        [key |-> defined[i].key, json |-> JsonValue(defined[i].value)]]

propsAttrs(n, nameWithoutSpaces) ==
  LET props == Spread(n.componentProperties, extraPropsOf(n, nameWithoutSpaces))
  IN IF Len(props) > 0
     THEN <<Attr("data-fig-props", propsStr(normalizeKeys(props, Keys(props))))>>
     ELSE <<>>

\* build: this.styles as the overrides leave it, what the style attribute
\* holds, and the attributes of the returned string, in its order.
build(st, n, isJsx, additionalStyle, layerName) ==
  LET s0 == addStyles(st, additionalStyle)
      s1 == overrideStyles(s0, n)
      nameWithoutSpaces == RemoveWhitespace(n.name)
      formattedStylesFiltered == SelectSeq(s1, LAMBDA s : keepStyle(n, s))
      separator == IF isJsx THEN ", " ELSE "; "
      styleAttrs == IF Len(s1) > 0
                    THEN <<Attr("style", [separator |-> separator,
                                          styles |-> formattedStylesFiltered])>>
                    ELSE <<>>
      formattedAttrs == propsAttrs(n, nameWithoutSpaces)
                        \o iconAttrs(n)
                        \o instanceAttrs(n, nameWithoutSpaces)
                        \o typeAttrs(n, styleAttrs)
  IN [styles |-> s1,
      hasStyle |-> Len(s1) > 0,
      separator |-> separator,
      formattedStylesFiltered |-> formattedStylesFiltered,
      attrs |-> IF Len(layerName) > 0
                THEN <<Attr(IF isJsx THEN "className" ELSE "class", layerName)>>
                     \o formattedAttrs
                ELSE formattedAttrs]

NotBuilt == [styles |-> <<>>, hasStyle |-> FALSE, separator |-> "",
             formattedStylesFiltered |-> <<>>, attrs |-> <<>>]

\* What a caller may pass to build as additionalStyle.
AdditionalDecls ==
  {formatWithJSX("display", FALSE, <<Tok("flex")>>),
   formatWithJSX("background", FALSE, <<Tok("red")>>),
   formatWithJSX("width", FALSE, <<Tok("100%")>>)}

(***************************************************************************)
(* The builder as its caller drives it: new HtmlDefaultBuilder(node, ..)   *)
(* .commonPositionStyles(node, optimizeLayout).commonShapeStyles(node)     *)
(* .build(additionalStyle).                                                *)
(***************************************************************************)
CommonPositionStyles ==
  /\ pc = "new"
  /\ styles' = commonPositionStyles(styles, node, isJSX, optimizeLayout)
  /\ pc' = "positioned"
  /\ UNCHANGED <<node, isJSX, backgroundValues, stylesAtBuild, built,
                 thisName, optimizeLayout>>
  /\ UNCHANGED swiftVars

CommonShapeStyles ==
  /\ pc = "positioned"
  /\ styles' = commonShapeStyles(styles, node, isJSX)
  /\ backgroundValues' = IF node.type = "TEXT" THEN backgroundValues
                         ELSE buildBackgroundValues(node.fills)
  /\ pc' = "shaped"
  /\ UNCHANGED <<node, isJSX, stylesAtBuild, built, thisName, optimizeLayout>>
  /\ UNCHANGED swiftVars

Build ==
  /\ pc = "shaped"
  /\ \E additionalStyle \in SeqsUpTo(AdditionalDecls, MaxAdditional) :
       /\ stylesAtBuild' = addStyles(styles, additionalStyle)
       /\ built' = build(styles, node, isJSX, additionalStyle, thisName)
       /\ styles' = build(styles, node, isJSX, additionalStyle, thisName).styles
  /\ pc' = "built"
  /\ UNCHANGED <<node, isJSX, backgroundValues, thisName, optimizeLayout>>
  /\ UNCHANGED swiftVars

NextHtml == CommonPositionStyles \/ CommonShapeStyles \/ Build

(***************************************************************************)
(* The nodes a builder is constructed for.                                 *)
(***************************************************************************)
NoInferred == [isNull |-> TRUE, layoutMode |-> "NONE", padding |-> 0]

DefaultNode ==
  [type |-> "RECTANGLE", visible |-> TRUE,
   width |-> 10, height |-> 20, x |-> 1, y |-> 2,
   rotation |-> 0, opacity |-> 100, blendMode |-> "NORMAL",
   sizeWidth |-> TRUE, sizeHeight |-> TRUE, textAutoResize |-> "NONE",
   layoutSizingHorizontal |-> "FIXED", layoutSizingVertical |-> "FIXED",
   layoutMode |-> "NONE", padding |-> 0, inferredAutoLayout |-> NoInferred,
   parentLayoutMode |-> "HORIZONTAL", parentInferred |-> "null",
   layoutPositioning |-> "AUTO",
   fills |-> NoPaints, strokes |-> NoPaints,
   strokeLeftWeight |-> 0, strokeTopWeight |-> 0,
   strokeRightWeight |-> 0, strokeBottomWeight |-> 0,
   dashPattern |-> 0, cornerRadius |-> 0, effects |-> <<>>,
   backgroundStyleId |-> "", fillStyleId |-> "",
   name |-> <<"L", "a", "y", "e", "r">>, textStyleId |-> "",
   fontName |-> [mixed |-> FALSE, family |-> <<"Inter">>],
   children |-> <<>>, componentProperties |-> <<>>]

OneSolid == PaintList(<<[type |-> "SOLID", color |-> 1]>>)

\* Nodes that differ in their strokes: the four edge weights, whether there
\* is a stroke paint at all, the dash pattern and the corner radius.
BorderNodes ==
  {[DefaultNode EXCEPT !.strokeLeftWeight = l, !.strokeTopWeight = t,
                       !.strokeRightWeight = r, !.strokeBottomWeight = b,
                       !.strokes = s, !.dashPattern = d, !.cornerRadius = c] :
     l \in 0..MaxWeight, t \in 0..MaxWeight, r \in 0..MaxWeight,
     b \in 0..MaxWeight, s \in {NoPaints, OneSolid}, d \in {0, 1}, c \in {0, 1}}

\* let localSettings, before the first call of swiftuiMain.
Undefined == [isUndefined |-> TRUE, swiftUIGenerationMode |-> "",
              optimizeLayout |-> FALSE]
NoResult == [threw |-> FALSE, text |-> <<>>]
NoRef == [set |-> FALSE, sceneNode |-> <<>>, settings |-> Undefined,
          result |-> NoResult, between |-> FALSE]

\* A builder made with showLayerName false: this.name stays "".
InitHtml(Nodes, Optimize) ==
  /\ node \in Nodes
  /\ isJSX \in BOOLEAN
  /\ optimizeLayout \in Optimize
  /\ styles = <<>>
  /\ backgroundValues = <<>>
  /\ stylesAtBuild = <<>>
  /\ built = NotBuilt
  /\ thisName = <<>>
  /\ pc = "new"
  /\ sceneNode = <<>>
  /\ settings = Undefined
  /\ localSettings = Undefined
  /\ result = NoResult
  /\ ref = NoRef

SpecBorder == InitHtml(BorderNodes, {FALSE}) /\ [][NextHtml]_vars

\* Nodes that differ in their fills: figma.mixed, or a list of paints.
FillNodes ==
  {[DefaultNode EXCEPT !.fills = f] :
     f \in {Mixed} \cup {PaintList(ps) : ps \in SeqsUpTo(Paints, MaxPaints)}}

SpecFills == InitHtml(FillNodes, {FALSE}) /\ [][NextHtml]_vars

NodeTypes == {"FRAME", "GROUP", "RECTANGLE", "TEXT", "INSTANCE", "VECTOR"}
LayoutModes == {"NONE", "HORIZONTAL", "VERTICAL"}

\* Nodes that differ in what decides their positioning: their kind, their
\* own layout mode and inferred snapshot, and their parent's.
PositionNodes ==
  {[DefaultNode EXCEPT !.type = ty, !.layoutMode = lm,
                       !.inferredAutoLayout = inf,
                       !.parentLayoutMode = plm, !.parentInferred = pinf,
                       !.layoutPositioning = lp] :
     ty \in NodeTypes, lm \in LayoutModes,
     inf \in {NoInferred,
              [isNull |-> FALSE, layoutMode |-> "NONE", padding |-> 0],
              [isNull |-> FALSE, layoutMode |-> "VERTICAL", padding |-> 0]},
     plm \in {"ABSENT", "NONE", "HORIZONTAL"},
     pinf \in {"null", "NONE", "HORIZONTAL"},
     lp \in {"AUTO", "ABSOLUTE"}}

SpecPosition == InitHtml(PositionNodes, BOOLEAN) /\ [][NextHtml]_vars

SizingModes == {"FIXED", "HUG", "FILL"}

\* Nodes that differ in what build reads: the sizing modes, whether the
\* size step produced a width and a height, the style identifiers, the
\* kind and whether there is a fill.
BuildNodes ==
  {[DefaultNode EXCEPT !.type = ty, !.fills = f,
                       !.layoutSizingHorizontal = h,
                       !.layoutSizingVertical = v,
                       !.sizeWidth = sw, !.sizeHeight = sh,
                       !.backgroundStyleId = bid, !.fillStyleId = fid] :
     ty \in {"FRAME", "RECTANGLE"}, f \in {NoPaints, OneSolid},
     h \in SizingModes, v \in SizingModes,
     sw \in BOOLEAN, sh \in BOOLEAN,
     bid \in {"", "S:missing", "S:primary"},
     fid \in {"", "S:missing", "S:accent"}}

SpecBuild == InitHtml(BuildNodes, {FALSE}) /\ [][NextHtml]_vars

(***************************************************************************)
(* Claims about HtmlDefaultBuilder.                                        *)
(***************************************************************************)
Props(st) == [i \in 1..Len(st) |-> st[i].prop]

BorderProps == {"border", "border-left", "border-top", "border-right",
                "border-bottom"}

\* The properties of the border declarations of this.styles, in order.
BorderDeclsOf(st) == SelectSeq(Props(st), LAMBDA q : q \in BorderProps)

HasStrokes(n) == ~n.strokes.mixed /\ n.strokes.paints # <<>>

UniformWeight(n) ==
  /\ n.strokeLeftWeight = n.strokeTopWeight
  /\ n.strokeTopWeight = n.strokeRightWeight
  /\ n.strokeRightWeight = n.strokeBottomWeight

\* The edges with a non-zero weight, in the order left, top, right, bottom.
NonZeroEdges(n) ==
  (IF n.strokeLeftWeight # 0 THEN <<"border-left">> ELSE <<>>)
  \o (IF n.strokeTopWeight # 0 THEN <<"border-top">> ELSE <<>>)
  \o (IF n.strokeRightWeight # 0 THEN <<"border-right">> ELSE <<>>)
  \o (IF n.strokeBottomWeight # 0 THEN <<"border-bottom">> ELSE <<>>)

\* C1: once border has run on a node with strokes, the border declarations
\* of the list are: none when the four edge weights are equal and zero;
\* exactly one shorthand "border" when they are equal and non-zero; and
\* when they differ exactly one declaration per edge of non-zero weight, in
\* the order border-left, border-top, border-right, border-bottom.
C1_BorderExhaustive ==
  (pc \in {"shaped", "built"} /\ HasStrokes(node)) =>
     BorderDeclsOf(styles) =
        IF UniformWeight(node)
        THEN IF node.strokeLeftWeight = 0 THEN <<>> ELSE <<"border">>
        ELSE NonZeroEdges(node)

\* C1 witness: weights 1, 0, 2, 1 gave border-left, border-right,
\* border-bottom and nothing for the top edge.
C1_Witness ==
  /\ pc = "shaped"
  /\ HasStrokes(node)
  /\ node.strokeLeftWeight = 1 /\ node.strokeTopWeight = 0
  /\ node.strokeRightWeight = 2 /\ node.strokeBottomWeight = 1
  /\ BorderDeclsOf(styles) = <<"border-left", "border-right", "border-bottom">>

IsSizeProp(q) == q \in {"width", "height"}

\* C4: the serialised declarations hold a width only if the horizontal
\* sizing mode is FIXED and a height only if the vertical one is (and then
\* every width, or height, of the list is kept); every other declaration of
\* the list is kept, in its order.
C4_SizingEmission ==
  pc = "built" =>
    LET out == built.formattedStylesFiltered
        widths(st) == SelectSeq(st, LAMBDA s : s.prop = "width")
        heights(st) == SelectSeq(st, LAMBDA s : s.prop = "height")
    IN /\ widths(out) = IF node.layoutSizingHorizontal = "FIXED"
                        THEN widths(built.styles) ELSE <<>>
       /\ heights(out) = IF node.layoutSizingVertical = "FIXED"
                         THEN heights(built.styles) ELSE <<>>
       /\ SelectSeq(out, LAMBDA s : ~IsSizeProp(s.prop))
            = SelectSeq(built.styles, LAMBDA s : ~IsSizeProp(s.prop))

\* C4 witness: a fixed-horizontal, hug-vertical node whose size step gave
\* both a width and a height is serialised with the width and no height.
C4_Witness ==
  /\ pc = "built"
  /\ node.layoutSizingHorizontal = "FIXED" /\ node.layoutSizingVertical = "HUG"
  /\ node.sizeWidth /\ node.sizeHeight
  /\ \E i \in 1..Len(built.styles) : built.styles[i].prop = "height"
  /\ \E i \in 1..Len(built.formattedStylesFiltered) :
        built.formattedStylesFiltered[i].prop = "width"
  /\ \A i \in 1..Len(built.formattedStylesFiltered) :
        built.formattedStylesFiltered[i].prop # "height"

IsSupportedPaint(p) == p.type = "SOLID" \/ p.type \in GradientTypes

\* C5: the value buildBackgroundValues returned is empty for figma.mixed;
\* for a list of exactly one solid paint it is that paint's plain colour;
\* for any other list it has one segment per supported paint, in the order
\* of the paints: a solid paint as a gradient with its colour at both
\* stops, a gradient paint as its gradient expression.
C5_PaintComposite ==
  (pc \in {"shaped", "built"} /\ node.type # "TEXT") =>
    LET ps == node.fills.paints
        supported == SelectSeq(ps, IsSupportedPaint)
        bv == backgroundValues
    IN IF node.fills.mixed THEN bv = <<>>
       ELSE IF Len(ps) = 1 /\ ps[1].type = "SOLID"
       THEN bv = << <<[t |-> "color", paint |-> ps[1]]>> >>
       ELSE /\ Len(bv) = Len(supported)
            /\ \A i \in 1..Len(supported) :
                 /\ Len(bv[i]) = 1
                 /\ IF supported[i].type = "SOLID"
                    THEN /\ bv[i][1].t = "linear-gradient"
                         /\ bv[i][1].from = <<[t |-> "color", paint |-> supported[i]]>>
                         /\ bv[i][1].to = bv[i][1].from
                    ELSE bv[i][1] = [t |-> "gradient", paint |-> supported[i]]

\* C5 witness: [solid 1, linear gradient 2] gave two segments, the solid
\* one first, as a degenerate gradient.
C5_Witness ==
  /\ pc = "shaped"
  /\ node.fills = PaintList(<<[type |-> "SOLID", color |-> 1],
                              [type |-> "GRADIENT_LINEAR", color |-> 2]>>)
  /\ Len(backgroundValues) = 2
  /\ backgroundValues[1][1].t = "linear-gradient"
  /\ backgroundValues[2][1].t = "gradient"

PositionProps == {"left", "top", "position"}

\* The declarations position added to this.styles, in order.
PositionDeclsOf(st) == SelectSeq(st, LAMBDA s : s.prop \in PositionProps)

AbsoluteDecls(n) ==
  <<[prop |-> "left", val |-> <<[t |-> "px", n |-> n.x]>>],
    [prop |-> "top", val |-> <<[t |-> "px", n |-> n.y]>>],
    [prop |-> "position", val |-> <<Tok("absolute")>>]>>

RelativeDecl == <<[prop |-> "position", val |-> <<Tok("relative")>>]>>

\* The node's own effective layout mode: the inferred snapshot under
\* optimize mode when there is one, the raw field otherwise.
EffectiveLayoutMode(n, optimize) ==
  IF optimize /\ ~n.inferredAutoLayout.isNull
  THEN n.inferredAutoLayout.layoutMode
  ELSE n.layoutMode

\* C6 as stated: position adds left, top and position: absolute for a node
\* outside an active parent auto-layout; otherwise position: relative only
\* for a Group or a Frame whose effective layout mode is NONE; otherwise
\* nothing.
C6_AsStated ==
  pc # "new" =>
    PositionDeclsOf(styles) =
      IF commonIsAbsolutePosition(node, optimizeLayout)
      THEN AbsoluteDecls(node)
      ELSE IF \/ node.type = "GROUP"
              \/ /\ node.type = "FRAME"
                 /\ EffectiveLayoutMode(node, optimizeLayout) = "NONE"
           THEN RelativeDecl
           ELSE <<>>

\* C6 amended: as stated, with position: relative for a Group or for any
\* node that carries a layout mode (a Frame or a component instance) whose
\* effective layout mode is NONE.
C6_PositionOutcomes ==
  pc # "new" =>
    PositionDeclsOf(styles) =
      IF commonIsAbsolutePosition(node, optimizeLayout)
      THEN AbsoluteDecls(node)
      ELSE IF \/ node.type = "GROUP"
              \/ /\ node.type \in {"FRAME", "INSTANCE"}
                 /\ EffectiveLayoutMode(node, optimizeLayout) = "NONE"
           THEN RelativeDecl
           ELSE <<>>

\* C6 witness: under optimize mode, a frame in its parent's flow whose raw
\* layout mode is HORIZONTAL and whose inferred one is NONE got
\* position: relative.
C6_Witness ==
  /\ pc = "positioned"
  /\ optimizeLayout
  /\ ~commonIsAbsolutePosition(node, optimizeLayout)
  /\ node.type = "FRAME"
  /\ node.layoutMode = "HORIZONTAL"
  /\ ~node.inferredAutoLayout.isNull
  /\ node.inferredAutoLayout.layoutMode = "NONE"
  /\ PositionDeclsOf(styles) = RelativeDecl

\* The two overrides of build: the property and the node field that holds
\* the style identifier.
Overrides == {<<"background", "backgroundStyleId">>, <<"color", "fillStyleId">>}
OverrideProps == {"background", "color"}

Resolves(id) == id # "" /\ getStyleByIdName(id) # ""

VarDecl(property, id) ==
  [prop |-> property, val |-> <<[t |-> "var", name |-> getStyleByIdName(id)]>>]

CountProp(st, property) == Count(st, LAMBDA s : s.prop = property)
FirstProp(st, property) == FindIndex(st, LAMBDA s : s.prop = property)

\* An override that ran: the first declaration of the property is replaced
\* where it stood, or the override is appended when the list held none.
ReplacedOrAppended(before, after, property, id) ==
  IF CountProp(before, property) > 0
  THEN after[FirstProp(before, property)] = VarDecl(property, id)
  ELSE \E i \in (Len(before) + 1)..Len(after) : after[i] = VarDecl(property, id)

\* C9 as stated: when a style identifier of the node resolves to a name,
\* the declaration of the overridden property is replaced at its index, or
\* appended when there is none, and the list then holds exactly one
\* declaration of that property; the other declarations keep their order;
\* with an identifier that is empty or does not resolve the declarations of
\* its property are unchanged.
C9_AsStated ==
  pc = "built" =>
    /\ \A o \in Overrides :
         IF Resolves(node[o[2]])
         THEN /\ CountProp(built.styles, o[1]) = 1
              /\ ReplacedOrAppended(stylesAtBuild, built.styles, o[1], node[o[2]])
         ELSE SelectSeq(built.styles, LAMBDA s : s.prop = o[1])
                = SelectSeq(stylesAtBuild, LAMBDA s : s.prop = o[1])
    /\ SelectSeq(built.styles, LAMBDA s : s.prop \notin OverrideProps)
         = SelectSeq(stylesAtBuild, LAMBDA s : s.prop \notin OverrideProps)

\* Whether build runs the override of a property: the identifier resolves,
\* and the colour override is skipped for a Frame.
OverrideApplies(n, o) ==
  Resolves(n[o[2]]) /\ (o[1] = "color" => n.type # "FRAME")

\* C9 amended: the background override runs when backgroundStyleId
\* resolves, the colour override when fillStyleId resolves and the node is
\* not a Frame.  An override that runs replaces the first declaration of
\* its property where it stands, or is appended when the list holds none:
\* the list then holds as many declarations of the property as before, and
\* at least one (exactly one when it held at most one).  Every other
\* position of the list is unchanged, and so is the whole list when no
\* override runs.
C9_StyleOverride ==
  pc = "built" =>
    LET before == stylesAtBuild
        after == built.styles
        appended == {o \in Overrides :
                       OverrideApplies(node, o) /\ CountProp(before, o[1]) = 0}
    IN /\ \A o \in Overrides :
            IF OverrideApplies(node, o)
            THEN /\ CountProp(after, o[1])
                      = IF CountProp(before, o[1]) = 0 THEN 1
                        ELSE CountProp(before, o[1])
                 /\ ReplacedOrAppended(before, after, o[1], node[o[2]])
            ELSE SelectSeq(after, LAMBDA s : s.prop = o[1])
                   = SelectSeq(before, LAMBDA s : s.prop = o[1])
       /\ Len(after) = Len(before) + Cardinality(appended)
       /\ \A i \in 1..Len(before) :
            \/ after[i] = before[i]
            \/ \E o \in Overrides :
                 /\ OverrideApplies(node, o)
                 /\ i = FirstProp(before, o[1])
                 /\ after[i] = VarDecl(o[1], node[o[2]])

\* C9 witness: the background declaration of the fill step stood before a
\* later declaration and was replaced where it stood by the named style.
C9_Witness ==
  /\ pc = "built"
  /\ Resolves(node.backgroundStyleId)
  /\ CountProp(stylesAtBuild, "background") = 1
  /\ FirstProp(stylesAtBuild, "background") < Len(stylesAtBuild)
  /\ Len(built.styles) = Len(stylesAtBuild)
  /\ built.styles[FirstProp(stylesAtBuild, "background")]
       = VarDecl("background", node.backgroundStyleId)
  /\ built.styles[Len(stylesAtBuild)] = stylesAtBuild[Len(stylesAtBuild)]

(***************************************************************************)
(* swiftuiMain.ts.  A node of the scene is a record; its children are a    *)
(* sequence of such records.  Lengths are kept in tenths (itemSpacing10 =  *)
(* 155 is an item spacing of 15.5).  The indentLevel arguments only add    *)
(* spaces and are left out.  Every function that reads the module-level    *)
(* localSettings takes its value as the argument ls.                       *)
(***************************************************************************)
StackLimit == 10
chunk == 10
MaxItems == 100
defaultSpacing == 16

NL == Tok("\n")

WarningComment ==
  <<NL, Tok("// SwiftUI has a 10 item limit in Stacks. By grouping them, it can grow even more. "),
    NL, Tok("// It seems, however, that you have more than 100 items at the same level. Wow!"),
    NL, Tok("// This is not yet supported; Limiting to the first 100 items...")>>

NoInferredLayout ==
  [isNull |-> TRUE, layoutMode |-> "NONE", counterAxisAlignItems |-> "MIN",
   itemSpacing10 |-> 0]

\* The steps of the SwiftUI builder chain of swiftuiContainer, in the order
\* of the calls.
ContainerSteps ==
  <<"shapeForeground", "autoLayoutPadding", "size", "shapeBackground",
    "cornerRadius", "shapeBorder", "commonPositionStyles", "effects">>

\* SwiftuiDefaultBuilder: each step adds its modifier when the node has what
\* the step is about (node.features), the size step always.
StepApplies(n, step) == step = "size" \/ step \in n.features

\* new SwiftuiDefaultBuilder(kind). ... .build(): kind, then the modifiers
\* in the order of the calls.
SwiftuiDefaultBuilder(kind, n, steps, optimize) ==
  LET applied == SelectSeq(steps, LAMBDA st : StepApplies(n, st))
  IN kind \o [i \in 1..Len(applied) |->
                [t |-> "modifier", step |-> applied[i], id |-> n.id,
                 optimizeLayout |-> (applied[i] \in {"autoLayoutPadding",
                                                     "commonPositionStyles"}
                                     /\ optimize)]]

\* SwiftuiTextBuilder: the modifiers of a text node.
SwiftuiTextBuilder(n, optimize) ==
  <<[t |-> "textModifiers", id |-> n.id, optimizeLayout |-> optimize]>>

\* className(name)
className(name) == name

\* "layoutAlign" in node and "opacity" in node
HasLayoutAlignAndOpacity(n) ==
  n.type \in {"RECTANGLE", "ELLIPSE", "GROUP", "FRAME", "TEXT"}

\* indentString(injectCode, 4).trimStart(): the leading white space goes.
RECURSIVE trimStart(_)
trimStart(text) ==
  IF text # <<>> /\ text[1] = NL THEN trimStart(Tail(text)) ELSE text

getStructTemplate(name, injectCode) ==
  <<[t |-> "struct", name |-> name], Tok(": View {"), NL,
    Tok("var body: some View {"), NL>>
  \o trimStart(injectCode)
  \o <<Tok(";"), NL, Tok("}"), NL, Tok("}")>>

getPreviewTemplate(name, injectCode) ==
  <<Tok("import SwiftUI"), NL, NL, Tok("struct ContentView: View {"), NL,
    Tok("var body: some View {"), NL>>
  \o trimStart(injectCode)
  \o <<Tok(";"), NL, Tok("}"), NL, Tok("}"), NL, NL,
       Tok("struct ContentView_Previews: PreviewProvider {"), NL,
       Tok("static var previews: some View {"), NL, Tok("ContentView()"), NL,
       Tok("}"), NL, Tok("}")>>

\* Math.round of a number kept in tenths (halves go up).
MathRound10(x10) == (x10 + 5) \div 10

getSpacing_truncated(inferredAutoLayout) ==
  IF inferredAutoLayout.itemSpacing10 \div 10 # defaultSpacing
  THEN inferredAutoLayout.itemSpacing10
  ELSE defaultSpacing * 10

getSpacing(inferredAutoLayout) ==
  IF MathRound10(inferredAutoLayout.itemSpacing10) # defaultSpacing
  THEN inferredAutoLayout.itemSpacing10
  ELSE defaultSpacing * 10

getLayoutAlignment_axesSwapped(inferredAutoLayout) ==
  CASE inferredAutoLayout.counterAxisAlignItems = "MIN" ->
         IF inferredAutoLayout.layoutMode = "VERTICAL" THEN ".top" ELSE ".leading"
    [] inferredAutoLayout.counterAxisAlignItems = "MAX" ->
         IF inferredAutoLayout.layoutMode = "VERTICAL" THEN ".bottom" ELSE ".trailing"
    [] inferredAutoLayout.counterAxisAlignItems = "BASELINE" -> ".firstTextBaseline"
    [] inferredAutoLayout.counterAxisAlignItems = "CENTER" -> ""

getLayoutAlignment(inferredAutoLayout) ==
  CASE inferredAutoLayout.counterAxisAlignItems = "MIN" ->
         IF inferredAutoLayout.layoutMode = "VERTICAL" THEN ".leading" ELSE ".top"
    [] inferredAutoLayout.counterAxisAlignItems = "MAX" ->
         IF inferredAutoLayout.layoutMode = "VERTICAL" THEN ".trailing" ELSE ".bottom"
    [] inferredAutoLayout.counterAxisAlignItems = "BASELINE" -> ".firstTextBaseline"
    [] inferredAutoLayout.counterAxisAlignItems = "CENTER" -> ""

\* generateSwiftViewCode: the properties are the pairs alignment (a string,
\* "" for none) and spacing (tenths, -1 for none), in that order.  The
\* branch for a property list longer than 60 characters is left out: the
\* longest list here, "alignment: .firstTextBaseline, spacing: " and a
\* number, stays under 60 for every spacing of fewer than 20 characters.
generateSwiftViewCode(viewName, alignment, spacing10, children) ==
  LET propertiesArray ==
        (IF alignment # ""
         THEN <<[key |-> "alignment", str |-> alignment, num10 |-> 0]>> ELSE <<>>)
        \o (IF spacing10 # -1
            THEN <<[key |-> "spacing", str |-> "", num10 |-> spacing10]>> ELSE <<>>)
  IN <<[t |-> "view", name |-> viewName, properties |-> propertiesArray],
       Tok("{"), NL>>
     \o children \o <<NL, Tok("}")>>

createDirectionalStack(children, inferredAutoLayout) ==
  IF inferredAutoLayout.layoutMode # "NONE"
  THEN generateSwiftViewCode(
         IF inferredAutoLayout.layoutMode = "HORIZONTAL" THEN "HStack" ELSE "VStack",
         getLayoutAlignment(inferredAutoLayout),
         getSpacing(inferredAutoLayout),
         children)
  ELSE generateSwiftViewCode("ZStack", "", -1, children)

swiftuiContainer(n, stack, ls) ==
  IF ~HasLayoutAlignAndOpacity(n) THEN <<>>
  ELSE IF n.width <= 0 \/ n.height <= 0 THEN stack
  ELSE LET kind == CASE n.type = "RECTANGLE" -> <<[t |-> "Rectangle()", id |-> n.id]>>
                     [] n.type = "ELLIPSE" -> <<[t |-> "Ellipse()", id |-> n.id]>>
                     [] OTHER -> stack
       IN SwiftuiDefaultBuilder(kind, n, ContainerSteps, ls.optimizeLayout)

swiftuiText(n, ls) ==
  <<NL, [t |-> "Text", id |-> n.id, textCase |-> n.textCase]>>
  \o SwiftuiTextBuilder(n, ls.optimizeLayout)

RECURSIVE swiftuiWidgetGenerator(_, _)

\* The for loop of widgetGeneratorWithLimits, from index i (0-based).
RECURSIVE GroupChunks(_, _, _)
GroupChunks(slicedChildren, i, ls) ==
  IF i < Len(slicedChildren)
  THEN LET j == IF i + chunk < Len(slicedChildren) THEN i + chunk
                ELSE Len(slicedChildren)
           chunkChildren == SubSeq(slicedChildren, i + 1, j)
       IN <<NL, Tok("Group {")>> \o swiftuiWidgetGenerator(chunkChildren, ls)
          \o <<NL, Tok("}")>> \o GroupChunks(slicedChildren, i + chunk, ls)
  ELSE <<>>

widgetGeneratorWithLimits_over10(n, ls) ==
  IF Len(n.children) <= StackLimit
  THEN swiftuiWidgetGenerator(n.children, ls)
  ELSE LET slicedChildren ==
             SubSeq(n.children, 1, IF Len(n.children) < MaxItems
                                   THEN Len(n.children) ELSE MaxItems)
       IN (IF Len(n.children) > MaxItems THEN WarningComment ELSE <<>>)
          \o GroupChunks(slicedChildren, 0, ls)

widgetGeneratorWithLimits_noSlice(n, ls) ==
  IF Len(n.children) < StackLimit
  THEN swiftuiWidgetGenerator(n.children, ls)
  ELSE (IF Len(n.children) > MaxItems THEN WarningComment ELSE <<>>)
       \o GroupChunks(n.children, 0, ls)

widgetGeneratorWithLimits(n, ls) ==
  IF Len(n.children) < StackLimit
  THEN swiftuiWidgetGenerator(n.children, ls)
  ELSE LET slicedChildren ==
             SubSeq(n.children, 1, IF Len(n.children) < MaxItems
                                   THEN Len(n.children) ELSE MaxItems)
       IN (IF Len(n.children) > MaxItems THEN WarningComment ELSE <<>>)
          \o GroupChunks(slicedChildren, 0, ls)

swiftuiGroup(n, ls) ==
  swiftuiContainer(n,
                   <<NL, Tok("ZStack {")>> \o widgetGeneratorWithLimits(n, ls)
                     \o <<NL, Tok("}")>>,
                   ls)

swiftuiFrame(n, ls) ==
  LET children == widgetGeneratorWithLimits(n, ls)
      anyStack == createDirectionalStack(
                    children,
                    IF ls.optimizeLayout /\ ~n.inferredAutoLayout.isNull
                    THEN n.inferredAutoLayout
                    ELSE [isNull |-> FALSE, layoutMode |-> n.layoutMode,
                          counterAxisAlignItems |-> n.counterAxisAlignItems,
                          itemSpacing10 |-> n.itemSpacing10])
  IN swiftuiContainer(n, anyStack, ls)

\* What the forEach of swiftuiWidgetGenerator adds for one visible node.
RenderNode(n, ls) ==
  CASE n.type \in {"RECTANGLE", "ELLIPSE"} -> swiftuiContainer(n, <<>>, ls)
    [] n.type = "GROUP" -> swiftuiGroup(n, ls)
    [] n.type = "FRAME" -> swiftuiFrame(n, ls)
    [] n.type = "TEXT" -> swiftuiText(n, ls)
    [] OTHER -> <<>>

\* The forEach of swiftuiWidgetGenerator from index (1-based) on.
RECURSIVE ForEachVisible(_, _, _)
ForEachVisible(visibleSceneNode, index, ls) ==
  IF index > Len(visibleSceneNode) THEN <<>>
  ELSE RenderNode(visibleSceneNode[index], ls)
       \o (IF index < Len(visibleSceneNode) THEN <<NL>> ELSE <<>>)
       \o ForEachVisible(visibleSceneNode, index + 1, ls)

swiftuiWidgetGenerator(nodes, ls) ==
  ForEachVisible(SelectSeq(nodes, LAMBDA d : d.visible), 1, ls)

Returned(text) == [threw |-> FALSE, text |-> text]
\* A TypeError: reading a property of undefined.
Threw == [threw |-> TRUE, text |-> <<>>]

GenerationModes == {"snippet", "struct", "preview"}
Settings == [isUndefined : {FALSE}, swiftUIGenerationMode : GenerationModes,
             optimizeLayout : BOOLEAN]
AssignLocalSettings_afterGenerate(old, new) ==
  IF old.isUndefined THEN new ELSE old

\* localSettings = settings, the first statement of swiftuiMain: what the
\* rest of the call reads as localSettings.
AssignLocalSettings(old, new) == new

\* swiftuiMain, with the value localSettings had before the call.
swiftuiMain(nodes, newSettings, old) ==
  LET ls == AssignLocalSettings(old, newSettings)
      generated == swiftuiWidgetGenerator(nodes, ls)
  IN IF ls.isUndefined THEN Threw
     ELSE CASE ls.swiftUIGenerationMode = "snippet" -> Returned(generated)
            [] ls.swiftUIGenerationMode = "struct" ->
                 IF nodes = <<>> THEN Threw
                 ELSE Returned(getStructTemplate(className(nodes[1].name), generated))
            [] ls.swiftUIGenerationMode = "preview" ->
                 IF nodes = <<>> THEN Threw
                 ELSE Returned(getPreviewTemplate(className(nodes[1].name), generated))
            [] OTHER ->
                 IF Len(generated) > 0 /\ generated[1] = NL
                 THEN Returned(SubSeq(generated, 2, Len(generated)))
                 ELSE Returned(generated)

(***************************************************************************)
(* Calls of swiftuiMain.                                                   *)
(***************************************************************************)
\* One call swiftuiMain(tree, s).  (The specifications of single calls take
\* the first call of the module, the one that finds localSettings unset.)
Call(tree, s) ==
  /\ sceneNode' = tree
  /\ settings' = s
  /\ localSettings' = s
  /\ result' = swiftuiMain(tree, s, localSettings)

InitSwift ==
  /\ node = DefaultNode
  /\ isJSX = FALSE
  /\ optimizeLayout = FALSE
  /\ styles = <<>>
  /\ backgroundValues = <<>>
  /\ stylesAtBuild = <<>>
  /\ built = NotBuilt
  /\ thisName = <<>>
  /\ pc = "new"
  /\ sceneNode = <<>>
  /\ settings = Undefined
  /\ localSettings = Undefined
  /\ result = NoResult
  /\ ref = NoRef

\* The nodes of the scenes.
SNode(id, type, visible, children) ==
  [id |-> id, type |-> type, visible |-> visible, name |-> "Layer",
   width |-> 10, height |-> 10, children |-> children,
   layoutMode |-> "NONE", counterAxisAlignItems |-> "MIN", itemSpacing10 |-> 0,
   inferredAutoLayout |-> NoInferredLayout, features |-> {},
   textCase |-> "ORIGINAL"]

LeafKinds ==
  {[type |-> "RECTANGLE", visible |-> TRUE], [type |-> "RECTANGLE", visible |-> FALSE],
   [type |-> "TEXT", visible |-> TRUE], [type |-> "VECTOR", visible |-> TRUE]}

\* The sibling sequence whose i-th node has the i-th kind and the id i.
Siblings(kinds) ==
  [i \in 1..Len(kinds) |-> SNode(i, kinds[i].type, kinds[i].visible, <<>>)]

MaxSiblings == 3
SiblingTrees == {Siblings(k) : k \in SeqsUpTo(LeafKinds, MaxSiblings)}

SwiftuiMainSiblings ==
  /\ localSettings.isUndefined
  /\ \E tree \in SiblingTrees, s \in Settings : Call(tree, s)
  /\ UNCHANGED ref
  /\ UNCHANGED htmlVars

SpecSiblings == InitSwift /\ [][SwiftuiMainSiblings]_vars

\* Containers with many children: child i has the kind the pattern gives
\* its index.
MaxChildren == 102
Patterns ==
  {<<[type |-> "RECTANGLE", visible |-> TRUE]>>,
   <<[type |-> "RECTANGLE", visible |-> TRUE], [type |-> "TEXT", visible |-> TRUE],
     [type |-> "RECTANGLE", visible |-> FALSE], [type |-> "VECTOR", visible |-> TRUE]>>}

PatternChildren(n, pattern) ==
  [i \in 1..n |-> SNode(i, pattern[((i - 1) % Len(pattern)) + 1].type,
                        pattern[((i - 1) % Len(pattern)) + 1].visible, <<>>)]

ContainerTrees ==
  {<<SNode(0, ty, TRUE, PatternChildren(n, p))>> :
     ty \in {"FRAME", "GROUP"}, n \in 0..MaxChildren, p \in Patterns}

SwiftuiMainContainers ==
  /\ localSettings.isUndefined
  /\ \E tree \in ContainerTrees, s \in Settings : Call(tree, s)
  /\ UNCHANGED ref
  /\ UNCHANGED htmlVars

SpecContainers == InitSwift /\ [][SwiftuiMainContainers]_vars

\* A few scenes whose text depends on the settings.
DeterminismTrees ==
  {<<>>,
   Siblings(<<[type |-> "RECTANGLE", visible |-> TRUE]>>),
   Siblings(<<[type |-> "TEXT", visible |-> TRUE], [type |-> "VECTOR", visible |-> TRUE]>>),
   <<SNode(0, "GROUP", TRUE, Siblings(<<[type |-> "RECTANGLE", visible |-> TRUE]>>))>>,
   <<[SNode(0, "FRAME", TRUE,
            Siblings(<<[type |-> "RECTANGLE", visible |-> TRUE],
                       [type |-> "TEXT", visible |-> TRUE]>>))
        EXCEPT !.layoutMode = "HORIZONTAL",
               !.inferredAutoLayout =
                  [isNull |-> FALSE, layoutMode |-> "VERTICAL",
                   counterAxisAlignItems |-> "CENTER", itemSpacing10 |-> 80]]>>}

\* (ref.between: a call with other settings ran since the remembered one.)
SwiftuiMain ==
  /\ \E tree \in DeterminismTrees, s \in Settings :
       /\ Call(tree, s)
       /\ ref' = IF ref.set /\ s # ref.settings
                 THEN [ref EXCEPT !.between = TRUE] ELSE ref
  /\ UNCHANGED htmlVars

\* A call whose arguments and result an observer keeps.
SwiftuiMainRemembered ==
  /\ \E tree \in DeterminismTrees, s \in Settings :
       /\ Call(tree, s)
       /\ ref' = [set |-> TRUE, sceneNode |-> tree, settings |-> s,
                  result |-> swiftuiMain(tree, s, localSettings),
                  between |-> FALSE]
  /\ UNCHANGED htmlVars

SpecDeterminism ==
  InitSwift /\ [][SwiftuiMain \/ SwiftuiMainRemembered]_vars

(***************************************************************************)
(* Claims about swiftuiMain.ts.                                            *)
(***************************************************************************)
HeadTypes == {"Rectangle()", "Ellipse()", "Text"}

\* The ids of the nodes rendered in a text, in the order of their units.
HeadIds(text) ==
  LET heads == SelectSeq(text, LAMBDA tok : tok.t \in HeadTypes)
  IN [i \in 1..Len(heads) |-> heads[i].id]

\* The ids of the nodes of a sequence that have a rendered unit: the
\* visible ones of a kind with a renderer.
RenderableIds(nodes) ==
  LET r == SelectSeq(nodes, LAMBDA d : d.visible /\ d.type \in {"RECTANGLE", "ELLIPSE", "TEXT"})
  IN [i \in 1..Len(r) |-> r[i].id]

GroupStarts(text) == {i \in 1..Len(text) : text[i] = Tok("Group {")}

\* Where the j-th Group of a text opens.
GroupStart(text, j) ==
  CHOOSE i \in GroupStarts(text) :
    Cardinality({k \in GroupStarts(text) : k < i}) = j - 1

\* What the j-th Group holds: the text up to its closing brace.
GroupBody(text, j) ==
  LET g == GroupStart(text, j)
      close == CHOOSE i \in (g + 1)..Len(text) :
                 text[i] = Tok("}") /\ \A k \in (g + 1)..(i - 1) : text[k] # Tok("}")
  IN SubSeq(text, g + 1, close - 1)

Min(a, b) == IF a < b THEN a ELSE b

WarningCount(text) ==
  Count(text, LAMBDA tok : tok = Tok("// This is not yet supported; Limiting to the first 100 items..."))

\* C2: a container with n children, 10 <= n <= 100, is rendered with
\* ceil(n / 10) Groups; the j-th Group holds the units of the children
\* 10(j-1)+1 .. min(10j, n), in their order, and no unit stands outside a
\* Group; a container with fewer than 10 children has no Group.
C2_Chunking ==
  (~localSettings.isUndefined /\ ~result.threw) =>
    LET children == sceneNode[1].children
        n == Len(children)
        text == result.text
    IN /\ n < 10 => (GroupStarts(text) = {} /\ HeadIds(text) = RenderableIds(children))
       /\ (10 <= n /\ n <= 100) =>
            /\ Cardinality(GroupStarts(text)) = (n + 9) \div 10
            /\ \A j \in 1..((n + 9) \div 10) :
                 HeadIds(GroupBody(text, j))
                   = RenderableIds(SubSeq(children, 10 * (j - 1) + 1, Min(10 * j, n)))
            /\ HeadIds(text) = RenderableIds(children)

\* C2 witness: 25 visible rectangles gave three Groups of 10, 10 and 5.
C2_Witness ==
  /\ ~localSettings.isUndefined /\ ~result.threw
  /\ Len(sceneNode[1].children) = 25
  /\ Cardinality(GroupStarts(result.text)) = 3
  /\ Len(HeadIds(GroupBody(result.text, 1))) = 10
  /\ Len(HeadIds(GroupBody(result.text, 2))) = 10
  /\ HeadIds(GroupBody(result.text, 3)) = <<21, 22, 23, 24, 25>>

\* C3: a container with more than 100 children is generated without an
\* error: its first 100 children are rendered, in their order, in exactly
\* 10 Groups, and the text holds exactly one truncation warning; with 100
\* children or fewer there is no warning.
C3_Truncation ==
  ~localSettings.isUndefined =>
    LET children == sceneNode[1].children
        n == Len(children)
        text == result.text
    IN /\ n > 100 =>
            /\ ~result.threw
            /\ Cardinality(GroupStarts(text)) = 10
            /\ HeadIds(text) = RenderableIds(SubSeq(children, 1, 100))
            /\ \A j \in 1..10 :
                 HeadIds(GroupBody(text, j))
                   = RenderableIds(SubSeq(children, 10 * (j - 1) + 1, 10 * j))
            /\ WarningCount(text) = 1
       /\ n <= 100 => WarningCount(text) = 0

\* C3 witness: a container with 102 children came out with the warning,
\* ten Groups and its 100th child as the last one rendered.
C3_Witness ==
  /\ ~localSettings.isUndefined /\ ~result.threw
  /\ Len(sceneNode[1].children) = 102
  /\ \A i \in 1..102 : sceneNode[1].children[i].visible
                        /\ sceneNode[1].children[i].type = "RECTANGLE"
  /\ WarningCount(result.text) = 1
  /\ Cardinality(GroupStarts(result.text)) = 10
  /\ HeadIds(GroupBody(result.text, 10))[10] = 100

\* C7: a call with the same node tree and the same settings as a
\* remembered earlier call returns the same text, whatever calls ran in
\* between.
C7_Determinism ==
  (ref.set /\ ref.sceneNode = sceneNode /\ ref.settings = settings) =>
    result = ref.result

\* C7 witness: after a remembered call and a call with other settings, a
\* call with the remembered arguments returned the remembered text.
C7_Witness ==
  /\ ref.set /\ ref.between
  /\ ref.sceneNode = sceneNode /\ ref.settings = settings
  /\ sceneNode # <<>> /\ sceneNode[1].type = "FRAME"
  /\ settings.optimizeLayout
  /\ ~result.threw /\ result = ref.result

\* C8 as stated: the fragment swiftuiWidgetGenerator makes of a sibling
\* sequence is the rendered units of its visible nodes of a supported kind,
\* in sibling order, with exactly one separator between two consecutive
\* units and none at the end.
C8_AsStated ==
  (~localSettings.isUndefined /\ settings.swiftUIGenerationMode = "snippet") =>
    LET rendered == SelectSeq(sceneNode,
                      LAMBDA d : d.visible /\ d.type \in {"RECTANGLE", "ELLIPSE",
                                                          "GROUP", "FRAME", "TEXT"})
        units == [i \in 1..Len(rendered) |-> RenderNode(rendered[i], localSettings)]
    IN result.text = Join(units, "\n")

(***************************************************************************)
(* The style pipeline of both generators on one node: the HTML builder as  *)
(* its caller drives it, and swiftuiMain on the same node.                 *)
(***************************************************************************)
\* Nodes that differ in what the steps of the pipeline look at.
PipelineNodes ==
  {[DefaultNode EXCEPT !.type = ty, !.padding = pd, !.fills = f,
                       !.strokes = f, !.strokeLeftWeight = w,
                       !.strokeTopWeight = w, !.strokeRightWeight = w,
                       !.strokeBottomWeight = w, !.cornerRadius = w,
                       !.effects = e, !.opacity = o,
                       !.parentLayoutMode = plm] :
     ty \in {"RECTANGLE", "FRAME"}, pd \in {0, 1}, f \in {NoPaints, OneSolid},
     w \in {0, 1},
     e \in {<<>>,
            <<[type |-> "DROP_SHADOW", visible |-> TRUE, radius |-> 4],
              [type |-> "LAYER_BLUR", visible |-> TRUE, radius |-> 2]>>,
            <<[type |-> "LAYER_BLUR", visible |-> FALSE, radius |-> 2],
              [type |-> "BACKGROUND_BLUR", visible |-> TRUE, radius |-> 3]>>},
     o \in {100, 50}, plm \in {"HORIZONTAL", "NONE"}}

\* The same node as swiftuiMain gets it: what its builder steps find.
SwiftNodeOf(n) ==
  [SNode(1, n.type, n.visible, <<>>) EXCEPT
     !.width = n.width, !.height = n.height, !.layoutMode = n.layoutMode,
     !.features =
        (IF n.type \in {"RECTANGLE", "ELLIPSE"} /\ n.fills.paints # <<>>
         THEN {"shapeForeground"} ELSE {})
        \cup (IF HasLayoutMode(n) /\ n.padding > 0
              THEN {"autoLayoutPadding"} ELSE {})
        \cup (IF n.type \in {"FRAME", "GROUP"} /\ n.fills.paints # <<>>
              THEN {"shapeBackground"} ELSE {})
        \cup (IF n.cornerRadius > 0 THEN {"cornerRadius"} ELSE {})
        \cup (IF ~commonStroke(n).isNull /\ n.strokeLeftWeight > 0
              THEN {"shapeBorder"} ELSE {})
        \cup (IF commonIsAbsolutePosition(n, FALSE) \/ n.opacity # 100
              THEN {"commonPositionStyles"} ELSE {})
        \cup (IF \E i \in 1..Len(n.effects) : n.effects[i].visible
              THEN {"effects"} ELSE {})]

SwiftuiMainOnNode ==
  /\ localSettings.isUndefined
  /\ \E s \in Settings : Call(<<SwiftNodeOf(node)>>, s)
  /\ UNCHANGED ref
  /\ UNCHANGED htmlVars

SpecPipeline ==
  InitHtml(PipelineNodes, {FALSE}) /\ [][NextHtml \/ SwiftuiMainOnNode]_vars

\* The step of the pipeline a declaration of the HTML builder comes from:
\* 1 size, 2 padding, 3 position, 4 blend, 5 fill, 6 shadow, 7 border and
\* corner radius, 8 blur.
StepOfProp(q) ==
  CASE q \in {"width", "height"} -> 1
    [] q = "padding" -> 2
    [] q \in {"left", "top", "position"} -> 3
    [] q \in {"visibility", "transform", "transform-origin", "opacity",
              "mix-blend-mode"} -> 4
    [] q \in {"background", "text"} -> 5
    [] q = "box-shadow" -> 6
    [] q \in BorderProps \cup {"border-radius"} -> 7
    [] q \in {"filter", "backdrop-filter"} -> 8

NonDecreasing(ranks) ==
  \A i \in 1..Len(ranks), j \in 1..Len(ranks) : i < j => ranks[i] <= ranks[j]

StrictlyIncreasing(ranks) ==
  \A i \in 1..Len(ranks), j \in 1..Len(ranks) : i < j => ranks[i] < ranks[j]

HtmlRanks(st) == [i \in 1..Len(st) |-> StepOfProp(st[i].prop)]

\* The declarations of the HTML builder stand in the order size, padding,
\* position, blend, fill, shadow, border, blur, and a step the node has
\* nothing for (no padding fields, no effects) added nothing.
HtmlStepOrder ==
  pc \in {"positioned", "shaped"} =>
    /\ NonDecreasing(HtmlRanks(styles))
    /\ ~HasLayoutMode(node) => \A i \in 1..Len(styles) : styles[i].prop # "padding"
    /\ node.effects = <<>> =>
         \A i \in 1..Len(styles) : StepOfProp(styles[i].prop) \notin {6, 8}

\* The builder steps of the modifiers of a generated SwiftUI text, in order.
ModifierSteps(text) ==
  LET m == SelectSeq(text, LAMBDA tok : tok.t = "modifier")
  IN [i \in 1..Len(m) |-> m[i].step]

\* The step of the pipeline, numbered as for the HTML builder, that a
\* SwiftUI builder step belongs to (effects: the shadow step, with which it
\* starts).
PipelineStepOf(step) ==
  CASE step = "size" -> 1
    [] step = "autoLayoutPadding" -> 2
    [] step = "commonPositionStyles" -> 3
    [] step \in {"shapeForeground", "shapeBackground"} -> 5
    [] step = "effects" -> 6
    [] step \in {"cornerRadius", "shapeBorder"} -> 7

\* C10 as stated: the declarations of a node stand in the order size,
\* padding, position, blend, fill, shadow, border, blur, in the HTML builder
\* and in the SwiftUI one alike.
C10_AsStated ==
  /\ HtmlStepOrder
  /\ (~localSettings.isUndefined /\ ~result.threw) =>
       NonDecreasing([i \in 1..Len(ModifierSteps(result.text)) |->
                        PipelineStepOf(ModifierSteps(result.text)[i])])

\* The place of a step in the builder chain of the SwiftUI container.
SwiftOwnRank(step) ==
  CASE step = "shapeForeground" -> 1
    [] step = "autoLayoutPadding" -> 2
    [] step = "size" -> 3
    [] step = "shapeBackground" -> 4
    [] step = "cornerRadius" -> 5
    [] step = "shapeBorder" -> 6
    [] step = "commonPositionStyles" -> 7
    [] step = "effects" -> 8

\* C10 amended: the HTML builder accumulates its declarations in the order
\* size, padding, position, blend, fill, shadow, border (with the corner
\* radius), blur, a step the node has nothing for adding nothing; the
\* SwiftUI container has an order of its own: foreground fill, padding,
\* size, background fill, corner radius, border, position and blend,
\* effects (shadow and blur), each step at most once.
C10_StepOrder ==
  /\ HtmlStepOrder
  /\ (~localSettings.isUndefined /\ ~result.threw) =>
       StrictlyIncreasing([i \in 1..Len(ModifierSteps(result.text)) |->
                             SwiftOwnRank(ModifierSteps(result.text)[i])])

\* C10 witness: a frame with padding, a fill, a shadow and a blur, a border
\* and a corner radius, positioned absolutely and half transparent, has
\* declarations of all eight steps in the HTML builder, and seven modifiers
\* in the SwiftUI text.
C10_Witness ==
  /\ pc = "shaped"
  /\ node.type = "FRAME"
  /\ Range(HtmlRanks(styles)) = 1..8
  /\ ~localSettings.isUndefined /\ ~result.threw
  /\ ModifierSteps(result.text)
       = <<"autoLayoutPadding", "size", "shapeBackground", "cornerRadius",
           "shapeBorder", "commonPositionStyles", "effects">>

(***************************************************************************)
(* swiftuiMain on nodes of size zero or less.                              *)
(***************************************************************************)
\* One root node of a kind swiftuiContainer renders, of every size around
\* zero; a Frame or a Group has up to two children.
ZeroSizeTrees ==
  {<<[SNode(0, ty, TRUE, Siblings(k)) EXCEPT !.width = w, !.height = h]>> :
     ty \in {"FRAME", "GROUP"}, w \in {-1, 0, 10}, h \in {0, 10},
     k \in SeqsUpTo(LeafKinds, 2)}
  \cup
  {<<[SNode(0, ty, TRUE, <<>>) EXCEPT !.width = w, !.height = h]>> :
     ty \in {"RECTANGLE", "ELLIPSE"}, w \in {-1, 0, 10}, h \in {0, 10}}

SwiftuiMainZeroSize ==
  /\ localSettings.isUndefined
  /\ \E tree \in ZeroSizeTrees, s \in Settings : Call(tree, s)
  /\ UNCHANGED ref
  /\ UNCHANGED htmlVars

SpecZeroSize == InitSwift /\ [][SwiftuiMainZeroSize]_vars

\* C11 as stated: a Rectangle, Ellipse, Group or Frame whose width or
\* height is at most 0 contributes nothing to the generated text: a root
\* of that size, with or without children, generates the empty fragment.
C11_AsStated ==
  (/\ ~localSettings.isUndefined
   /\ settings.swiftUIGenerationMode = "snippet"
   /\ sceneNode # <<>>
   /\ (sceneNode[1].width <= 0 \/ sceneNode[1].height <= 0)) =>
    result.text = <<>>

\* The fragment swiftuiMain generated from its root sequence before the
\* generation mode was looked at.
RootFragment == swiftuiWidgetGenerator(sceneNode, localSettings)

\* What a wrapper template holds in the place of the injected code.
Injected(text) ==
  LET from == FindIndex(text, LAMBDA tok : tok = Tok("var body: some View {"))
      to == FindIndex(text, LAMBDA tok : tok = Tok(";"))
  IN SubSeq(text, from + 2, to - 1)

\* C12 as stated: in each of the modes snippet, struct and preview, when
\* the root fragment starts with the newline of the outermost renderer,
\* the returned text (the code injected into the template) is the fragment
\* without exactly that one newline.
C12_AsStated ==
  (/\ ~localSettings.isUndefined
   /\ ~result.threw
   /\ RootFragment # <<>>
   /\ RootFragment[1] = NL) =>
    IF settings.swiftUIGenerationMode = "snippet"
    THEN result.text = Tail(RootFragment)
    ELSE Injected(result.text) = Tail(RootFragment)

\* C13 as stated: a call with an empty root sequence returns the empty
\* text and throws nothing, in every generation mode, and a call with a
\* root sequence that is not empty never returns the empty text.
C13_AsStated ==
  ~localSettings.isUndefined =>
    /\ sceneNode = <<>> => (~result.threw /\ result.text = <<>>)
    /\ sceneNode # <<>> => (result.threw \/ result.text # <<>>)

(***************************************************************************)
(* swiftuiMain on one frame, for the stack swiftuiFrame makes of it.       *)
(***************************************************************************)
LayoutAxes == {"NONE", "HORIZONTAL", "VERTICAL"}
AlignItems == {"MIN", "MAX", "BASELINE", "CENTER"}
\* Item spacings (in tenths) around the default spacing and away from it.
Spacings10 == {0, 80, 154, 155, 159, 160, 161, 164, 165, 200}

InferredLayouts ==
  {NoInferredLayout}
  \cup [isNull : {FALSE}, layoutMode : LayoutAxes,
        counterAxisAlignItems : AlignItems, itemSpacing10 : {155, 200}]

StackTrees ==
  {<<[SNode(0, "FRAME", TRUE, Siblings(<<[type |-> "RECTANGLE", visible |-> TRUE]>>))
        EXCEPT !.layoutMode = lm, !.counterAxisAlignItems = al,
               !.itemSpacing10 = sp, !.inferredAutoLayout = inf]>> :
     lm \in LayoutAxes, al \in AlignItems, sp \in Spacings10,
     inf \in InferredLayouts}

SwiftuiMainStacks ==
  /\ localSettings.isUndefined
  /\ \E tree \in StackTrees, s \in Settings : Call(tree, s)
  /\ UNCHANGED ref
  /\ UNCHANGED htmlVars

SpecStacks == InitSwift /\ [][SwiftuiMainStacks]_vars

\* The layout snapshot in effect for a frame: the inferred one under
\* optimize mode when there is one, the fields of the node otherwise.
EffectiveSnapshot(n, ls) ==
  IF ls.optimizeLayout /\ ~n.inferredAutoLayout.isNull
  THEN n.inferredAutoLayout
  ELSE [isNull |-> FALSE, layoutMode |-> n.layoutMode,
        counterAxisAlignItems |-> n.counterAxisAlignItems,
        itemSpacing10 |-> n.itemSpacing10]

\* The stack constructs of a text, and the arguments of one under a key.
StackViews(text) == SelectSeq(text, LAMBDA tok : tok.t = "view")
Arguments(view, key) == SelectSeq(view.properties, LAMBDA q : q.key = key)

FrameCalled == ~localSettings.isUndefined /\ ~result.threw

\* C14 as stated: the spacing written for a horizontal or vertical frame
\* is numerically the measured item spacing, and it is written as 16
\* exactly when the measured spacing rounds to 16.
C14_AsStated ==
  FrameCalled =>
    LET snapshot == EffectiveSnapshot(sceneNode[1], localSettings)
        view == StackViews(result.text)[1]
    IN snapshot.layoutMode # "NONE" =>
         /\ Len(Arguments(view, "spacing")) = 1
         /\ Arguments(view, "spacing")[1].num10 = snapshot.itemSpacing10
         /\ (Arguments(view, "spacing")[1].num10 = defaultSpacing * 10)
              <=> (MathRound10(snapshot.itemSpacing10) = defaultSpacing)

\* C14 amended: the spacing written for a horizontal or vertical frame is
\* the default 16 when the measured item spacing rounds to 16 (from 15.5
\* up to, not including, 16.5: up to half a unit away from the measured
\* value), and the measured item spacing itself otherwise.
C14_Spacing ==
  FrameCalled =>
    LET snapshot == EffectiveSnapshot(sceneNode[1], localSettings)
        view == StackViews(result.text)[1]
        measured10 == snapshot.itemSpacing10
    IN snapshot.layoutMode # "NONE" =>
         /\ Len(Arguments(view, "spacing")) = 1
         /\ Arguments(view, "spacing")[1].num10 =
              IF 155 <= measured10 /\ measured10 < 165 THEN 160 ELSE measured10

\* C14 witness: a frame whose measured item spacing is 15.5 got the
\* spacing 16, and this under optimize mode from the inferred snapshot.
C14_Witness ==
  /\ FrameCalled
  /\ localSettings.optimizeLayout
  /\ ~sceneNode[1].inferredAutoLayout.isNull
  /\ sceneNode[1].inferredAutoLayout.layoutMode = "VERTICAL"
  /\ sceneNode[1].inferredAutoLayout.itemSpacing10 = 155
  /\ sceneNode[1].itemSpacing10 = 80
  /\ Arguments(StackViews(result.text)[1], "spacing")[1].num10 = 160

\* C15: the frame is rendered with exactly one stack, chosen by the layout
\* mode of the snapshot in effect: NONE gives a ZStack without arguments,
\* HORIZONTAL an HStack and VERTICAL a VStack, whose alignment is .leading
\* (vertical) or .top (horizontal) for MIN, .trailing or .bottom for MAX,
\* .firstTextBaseline for BASELINE, and no alignment argument for CENTER.
C15_DirectionalStack ==
  FrameCalled =>
    LET snapshot == EffectiveSnapshot(sceneNode[1], localSettings)
        views == StackViews(result.text)
        vertical == snapshot.layoutMode = "VERTICAL"
        align == snapshot.counterAxisAlignItems
    IN /\ Len(views) = 1
       /\ views[1].name = CASE snapshot.layoutMode = "NONE" -> "ZStack"
                            [] snapshot.layoutMode = "HORIZONTAL" -> "HStack"
                            [] snapshot.layoutMode = "VERTICAL" -> "VStack"
       /\ snapshot.layoutMode = "NONE" => views[1].properties = <<>>
       /\ snapshot.layoutMode # "NONE" =>
            IF align = "CENTER" THEN Arguments(views[1], "alignment") = <<>>
            ELSE /\ Len(Arguments(views[1], "alignment")) = 1
                 /\ Arguments(views[1], "alignment")[1].str =
                      CASE align = "MIN" -> IF vertical THEN ".leading" ELSE ".top"
                        [] align = "MAX" -> IF vertical THEN ".trailing" ELSE ".bottom"
                        [] align = "BASELINE" -> ".firstTextBaseline"

\* C15 witness: under optimize mode a frame whose own layout mode is
\* HORIZONTAL and whose inferred snapshot is VERTICAL with MAX alignment
\* was rendered as a VStack aligned .trailing.
C15_Witness ==
  /\ FrameCalled
  /\ localSettings.optimizeLayout
  /\ sceneNode[1].layoutMode = "HORIZONTAL"
  /\ sceneNode[1].counterAxisAlignItems = "MIN"
  /\ ~sceneNode[1].inferredAutoLayout.isNull
  /\ sceneNode[1].inferredAutoLayout.layoutMode = "VERTICAL"
  /\ sceneNode[1].inferredAutoLayout.counterAxisAlignItems = "MAX"
  /\ StackViews(result.text)[1].name = "VStack"
  /\ Arguments(StackViews(result.text)[1], "alignment")[1].str = ".trailing"

(***************************************************************************)
(* build on nodes that differ in what its attributes look at.              *)
(***************************************************************************)
MaxProps == 2

VectorChild ==
  [DefaultNode EXCEPT !.type = "VECTOR", !.name = <<"s", "t", "a", "r">>,
                      !.fillStyleId = "S:accent"]
TextIconChild ==
  [DefaultNode EXCEPT !.type = "TEXT", !.name = <<"b", "e", "l", "l">>,
                      !.fontName = [mixed |-> FALSE,
                                    family |-> <<"Font", " ", "Awesome", " ",
                                                 "6", " ", "Free">>]]
InstanceChild ==
  [DefaultNode EXCEPT !.type = "INSTANCE", !.name = <<"H", "o", "m", "e">>]
FrameChild ==
  [DefaultNode EXCEPT !.type = "FRAME", !.children = <<InstanceChild>>]

InstanceNames ==
  {<<"C", "a", "r", "d">>,
   <<"N", "a", "v", " ", "B", "u", "t", "t", "o", "n">>,
   IconButton}

\* componentProperties: up to MaxProps entries with different keys, some
\* of them with a variant suffix after "#", in every order.
PropKeys == {<<"label">>, <<"label", "1:2">>, <<"label", "9:9">>, <<"size", "3:4">>}
PropValues == {Obj(Str(<<"A">>)), Obj(Str(<<"\"", "B", "\"">>)), Obj(Bool(TRUE))}
PropObjects ==
  {obj \in SeqsUpTo([key : PropKeys, value : PropValues], MaxProps) :
     \A i \in 1..Len(obj), j \in 1..Len(obj) : i # j => obj[i].key # obj[j].key}

TagNodes ==
  {[DefaultNode EXCEPT !.type = "INSTANCE", !.name = nm, !.children = ch,
                       !.componentProperties = cp] :
     nm \in InstanceNames,
     ch \in {<<>>, <<VectorChild>>, <<TextIconChild>>, <<InstanceChild>>,
             <<FrameChild>>},
     cp \in PropObjects}
  \cup
  {[DefaultNode EXCEPT !.type = "TEXT", !.fontName = fn, !.textStyleId = ts,
                       !.fillStyleId = fid] :
     fn \in {DefaultNode.fontName, TextIconChild.fontName,
             [mixed |-> TRUE, family |-> <<>>]},
     ts \in {"", "S:missing", "S:primary", "figma.mixed"},
     fid \in {"", "S:accent"}}
  \cup
  {[DefaultNode EXCEPT !.type = ty, !.fills = f] :
     ty \in {"RECTANGLE", "FRAME", "VECTOR"},
     f \in {NoPaints, OneSolid, Mixed,
            PaintList(<<[type |-> "IMAGE", color |-> 1]>>)}}

\* The builders of these nodes, made with and without showLayerName.
InitTags ==
  /\ node \in TagNodes
  /\ isJSX \in BOOLEAN
  /\ optimizeLayout = FALSE
  /\ styles = <<>>
  /\ backgroundValues = <<>>
  /\ stylesAtBuild = <<>>
  /\ built = NotBuilt
  /\ thisName \in {<<>>, className(node.name)}
  /\ pc = "new"
  /\ sceneNode = <<>>
  /\ settings = Undefined
  /\ localSettings = Undefined
  /\ result = NoResult
  /\ ref = NoRef

SpecTags == InitTags /\ [][NextHtml]_vars

AttrsNamed(attrs, a) == SelectSeq(attrs, LAMBDA x : x.attr = a)

\* C16 as stated: the attributes build returns hold exactly one
\* element-kind tag (data-fig-type) and never two component-type tags
\* (data-fig-cmp-type); for a component instance they hold exactly one
\* component-type tag, whose value is the name of the instance without its
\* white space, or IconButton for the name NavButton.
C16_AsStated ==
  pc = "built" =>
    LET kind == AttrsNamed(built.attrs, "data-fig-type")
        cmp == AttrsNamed(built.attrs, "data-fig-cmp-type")
        nameWithoutSpaces == RemoveWhitespace(node.name)
    IN /\ Len(kind) = 1
       /\ Len(cmp) <= 1
       /\ node.type = "INSTANCE" =>
            /\ Len(cmp) = 1
            /\ cmp[1].val = IF nameWithoutSpaces = NavButton THEN IconButton
                            ELSE nameWithoutSpaces

\* The properties build serialises: the component properties of the node
\* and the extra ones build adds.
InputProps(n) ==
  Spread(n.componentProperties, extraPropsOf(n, RemoveWhitespace(n.name)))

\* The entries of the serialised property string, none when there is no
\* data-fig-props attribute.
SerializedProps(attrs) ==
  IF AttrsNamed(attrs, "data-fig-props") = <<>> THEN <<>>
  ELSE AttrsNamed(attrs, "data-fig-props")[1].val

\* C17 as stated: every key of the serialised property string has no "#",
\* is the part before the first "#" of a key of the input, and has the
\* value of an input property with that normalised key; and every
\* normalised key of the input has an entry, so that no value is lost or
\* left undefined, also when a plain and a suffixed key normalise to the
\* same name.
C17_AsStated ==
  pc = "built" =>
    LET input == InputProps(node)
        out == SerializedProps(built.attrs)
    IN /\ \A j \in 1..Len(out) :
            /\ Len(out[j].key) = 1
            /\ \E i \in 1..Len(input) :
                 /\ out[j].key = <<input[i].key[1]>>
                 /\ out[j].json = JsonValue(input[i].value.value)
       /\ \A i \in 1..Len(input) :
            \E j \in 1..Len(out) : out[j].key = <<input[i].key[1]>>

====
